---------------------------- MODULE Spec2Model ----------------------------
(***************************************************************************)
(* A model of src/midi_joystick.py: the Mapping rule (construction,        *)
(* matches, run), the Joystick wrapper around the virtual gamepad, and the *)
(* dispatch loop run_midi_joysticks.                                       *)
(*                                                                         *)
(* Python's None is the integer None (-1): every MIDI number, joystick,    *)
(* button and axis id of the model is >= 0.  An optional text (do_keys) is *)
(* <<>> for None and <<text>> otherwise; a text is a sequence of           *)
(* one-character strings.  A float is an exact fraction <<num, den>> with  *)
(* den > 0, in lowest terms.                                               *)
(***************************************************************************)
EXTENDS Integers, Sequences, FiniteSets, TLC

VARIABLES
    kwargs,     \* the keyword arguments of a Mapping(...) call under construction
    built,      \* "new", "ok" (the Mapping exists) or "ValueError" (the call raised)
    message,    \* the message last handed to Mapping.matches directly
    matched,    \* what that call returned: "none" before any call, else "True"/"False"
    mappings,   \* the list of Mapping objects handed to run_midi_joysticks
    pending,    \* per open port: the messages buffered, oldest first
    arrived,    \* per open port: how many messages have arrived so far
    loop,       \* "running", "ValueError", "ZeroDivisionError" or "quit"
    handled,    \* the (port, message) pairs the loop has taken, in order
    calls,      \* one record per run_if_matches call made by the loop, in order
    joy,        \* per Joystick object: its current_params_* fields
    pad,        \* per Joystick object: the state of its VX360Gamepad
    keyboard,   \* the keys pyautogui currently holds down
    port,       \* the port multi_receive is draining, NoPort before the first message
    jcalls      \* one record per Joystick method called directly, in order

vars == <<kwargs, built, message, matched, mappings, pending, arrived, loop,
          handled, calls, joy, pad, keyboard, port, jcalls>>

None == -1

-----------------------------------------------------------------------------
(* Exact fractions, for the floats of Mapping.run and Joystick.move_axis.   *)

Abs(n) == IF n < 0 THEN -n ELSE n

RECURSIVE Gcd(_, _)
Gcd(a, b) == IF b = 0 THEN a ELSE Gcd(b, a % b)

\* n / d for d # 0, in lowest terms with a positive denominator
Frac(n, d) ==
    LET g == Gcd(Abs(n), Abs(d))
        s == IF d < 0 THEN -1 ELSE 1
    IN  <<(s * n) \div g, (s * d) \div g>>

FracLe(a, b) == a[1] * b[2] <= b[1] * a[2]

Zero == Frac(0, 1)
One == Frac(1, 1)
Half == Frac(1, 2)

-----------------------------------------------------------------------------
(* MIDI messages (mido.Message).  An attribute the message type does not    *)
(* have is None: hasattr(msg, a) is msg[a] # None.                          *)

Msg(type, channel, control, note, value, program) ==
    [type |-> type, channel |-> channel, control |-> control, note |-> note,
     value |-> value, program |-> program]

ControlChange(ch, c, v) == Msg("control_change", ch, c, None, v, None)
ProgramChange(ch, p) == Msg("program_change", ch, None, None, None, p)
NoteOn(ch, n) == Msg("note_on", ch, None, n, None, None)
NoteOff(ch, n) == Msg("note_off", ch, None, n, None, None)
Aftertouch(ch, v) == Msg("aftertouch", ch, None, None, v, None)
Pitchwheel(ch) == Msg("pitchwheel", ch, None, None, None, None)
Clock == Msg("clock", None, None, None, None, None)

HasAttr(midi_message, a) == midi_message[a] # None

\* extract_midi_value: [ok |-> TRUE, value |-> v], or ok = FALSE for the ValueError
ExtractRaises == [ok |-> FALSE, value |-> None]

extract_midi_value(midi_message) ==
    IF HasAttr(midi_message, "value")
    THEN [ok |-> TRUE, value |-> midi_message.value]
    ELSE IF HasAttr(midi_message, "program")
    THEN [ok |-> TRUE, value |-> midi_message.program]
    ELSE IF midi_message.type = "note_on"
    THEN [ok |-> TRUE, value |-> 1]
    ELSE IF midi_message.type = "note_off"
    THEN [ok |-> TRUE, value |-> 0]
    ELSE ExtractRaises

-----------------------------------------------------------------------------
(* Mapping                                                                   *)

KEY_SEP == "+"

\* Mapping.__init__, the checks: TRUE when the constructor raises ValueError
MappingInitRaisesStrict(kw) ==
    \/ /\ kw.do_button # None /\ kw.do_axis # None
       /\ kw.with_joystick = None
    \/ kw.when_note # None /\ kw.do_axis # None

MappingInitRaises(kw) ==
    \/ /\ kw.do_button # None \/ kw.do_axis # None
       /\ kw.with_joystick = None
    \/ kw.when_note # None /\ kw.do_axis # None

\* Mapping.matches with the value range applied to every mapping
MatchesAlwaysRanged(m, midi_message) ==
    /\ ~(m.when_channel # None /\ midi_message.channel # m.when_channel)
    /\ ~(m.when_is_program /\ midi_message.type # "program_change")
    /\ m.when_control # None =>
          /\ midi_message.type = "control_change"
          /\ midi_message.control = m.when_control
    /\ m.when_note # None =>
          /\ midi_message.type \in {"note_on", "note_off"}
          /\ midi_message.note = m.when_note
    /\ LET value == extract_midi_value(midi_message).value
       IN  m.when_value_between[1] <= value /\ value <= m.when_value_between[2]

\* Mapping.matches.  Where the range is applied the message is a
\* control_change or a program_change, whose value extraction cannot raise.
Matches(m, midi_message) ==
    IF m.when_channel # None /\ midi_message.channel # m.when_channel
    THEN FALSE
    ELSE IF m.when_is_program /\ midi_message.type # "program_change"
    THEN FALSE
    ELSE IF /\ m.when_control # None
            /\ \/ midi_message.type # "control_change"
               \/ midi_message.control # m.when_control
    THEN FALSE
    ELSE IF /\ m.when_note # None
            /\ \/ midi_message.type \notin {"note_on", "note_off"}
               \/ midi_message.note # m.when_note
    THEN FALSE
    ELSE IF m.when_is_program \/ m.when_control # None
    THEN LET value == extract_midi_value(midi_message).value
         IN  m.when_value_between[1] <= value /\ value <= m.when_value_between[2]
    ELSE TRUE

-----------------------------------------------------------------------------
(* Joystick                                                                  *)

\* Joystick.BUTTONS: button number n is BUTTONS[n + 1]
BUTTONS ==
    <<"DPAD_UP", "DPAD_DOWN", "DPAD_LEFT", "DPAD_RIGHT", "START", "BACK",
      "LEFT_THUMB", "RIGHT_THUMB", "LEFT_SHOULDER", "RIGHT_SHOULDER", "GUIDE",
      "A", "B", "X", "Y">>

\* Joystick.AXES: axis number n is AXES[n + 1], each name already split at
\* its ":" (param is "" for a name without one)
AXES ==
    <<[name |-> "triggers", param |-> ""],
      [name |-> "left_joystick_float", param |-> "x_value_float"],
      [name |-> "left_joystick_float", param |-> "y_value_float"],
      [name |-> "right_joystick_float", param |-> "x_value_float"],
      [name |-> "right_joystick_float", param |-> "y_value_float"]>>

ButtonNumbers == 0 .. Len(BUTTONS) - 1
AxisNumbers == 0 .. Len(AXES) - 1

\* a call of a VX360Gamepad method, with its arguments
PadCall(fn, x, y, button) == [fn |-> fn, x |-> x, y |-> y, button |-> button]

StickCall(name, params) == PadCall(name, params.x_value_float, params.y_value_float, "")
LeftTrigger(v) == PadCall("left_trigger_float", v, Zero, "")
RightTrigger(v) == PadCall("right_trigger_float", v, Zero, "")
PressButton(b) == PadCall("press_button", Zero, Zero, b)
ReleaseButton(b) == PadCall("release_button", Zero, Zero, b)
Update == PadCall("update", Zero, Zero, "")

\* Joystick.__init__: the two current_params_* dicts
JoystickInit ==
    [left_joystick_float |-> [x_value_float |-> Frac(-1, 1), y_value_float |-> One],
     right_joystick_float |-> [x_value_float |-> Frac(-1, 1), y_value_float |-> One]]

\* VX360Gamepad(): the report being edited and the report last sent by update()
EmptyReport ==
    [left_trigger |-> Zero, right_trigger |-> Zero,
     left_joystick_float |-> <<Zero, Zero>>, right_joystick_float |-> <<Zero, Zero>>,
     buttons |-> {}]

PadInit == [report |-> EmptyReport, sent |-> EmptyReport]

\* the effect of one VX360Gamepad call on the pad
PadApply(p, c) ==
    IF c.fn = "update" THEN [p EXCEPT !.sent = p.report]
    ELSE IF c.fn = "left_trigger_float" THEN [p EXCEPT !.report.left_trigger = c.x]
    ELSE IF c.fn = "right_trigger_float" THEN [p EXCEPT !.report.right_trigger = c.x]
    ELSE IF c.fn = "left_joystick_float"
    THEN [p EXCEPT !.report.left_joystick_float = <<c.x, c.y>>]
    ELSE IF c.fn = "right_joystick_float"
    THEN [p EXCEPT !.report.right_joystick_float = <<c.x, c.y>>]
    ELSE IF c.fn = "press_button"
    THEN [p EXCEPT !.report.buttons = @ \cup {c.button}]
    ELSE [p EXCEPT !.report.buttons = @ \ {c.button}]

RECURSIVE PadApplyAll(_, _)
PadApplyAll(p, cs) ==
    IF cs = <<>> THEN p ELSE PadApplyAll(PadApply(p, Head(cs)), Tail(cs))

\* the result of a Joystick method: the object's fields and the pad calls made
JResult(j, cs) == [joy |-> j, padCalls |-> cs]

\* Joystick.press / Joystick.release
Press(j, button_number) ==
    JResult(j, <<PressButton(BUTTONS[button_number + 1]), Update>>)

Release(j, button_number) ==
    JResult(j, <<ReleaseButton(BUTTONS[button_number + 1]), Update>>)

\* value * 2 - 1, value * 2 and 1 - value * 2 of move_axis
StickValue(value) == Frac(2 * value[1] - value[2], value[2])
Double(value) == Frac(2 * value[1], value[2])
OneMinusDouble(value) == Frac(value[2] - 2 * value[1], value[2])
Neg(value) == Frac(-value[1], value[2])

\* move_axis forgetting the other component of the stick
MoveAxisForgetful(j, axis_number, value) ==
    LET axis == AXES[axis_number + 1] IN
    IF axis.param # ""
    THEN LET v == IF axis.param = "y_value_float"
                  THEN Neg(StickValue(value)) ELSE StickValue(value)
             current_params == [JoystickInit[axis.name] EXCEPT ![axis.param] = v]
         IN  JResult([j EXCEPT ![axis.name] = current_params],
                     <<StickCall(axis.name, current_params), Update>>)
    ELSE IF FracLe(Half, value)
         THEN JResult(j, <<LeftTrigger(Double(value)), RightTrigger(Zero), Update>>)
         ELSE JResult(j, <<LeftTrigger(Zero), RightTrigger(OneMinusDouble(value)), Update>>)

\* Joystick.move_axis
MoveAxis(j, axis_number, value) ==
    LET axis == AXES[axis_number + 1] IN
    IF axis.param # ""
    THEN LET v == IF axis.param = "y_value_float"
                  THEN Neg(StickValue(value)) ELSE StickValue(value)
             current_params == [j[axis.name] EXCEPT ![axis.param] = v]
         IN  JResult([j EXCEPT ![axis.name] = current_params],
                     <<StickCall(axis.name, current_params), Update>>)
    ELSE IF FracLe(Half, value)
         THEN JResult(j, <<LeftTrigger(Double(value)), RightTrigger(Zero), Update>>)
         ELSE JResult(j, <<LeftTrigger(Zero), RightTrigger(OneMinusDouble(value)), Update>>)

-----------------------------------------------------------------------------
(* Mapping.run                                                               *)

\* str.split(sep) on a text: the pieces between the separators, in order
RECURSIVE Split(_, _)
Split(text, sep) ==
    IF text = <<>> THEN << <<>> >>
    ELSE LET rest == Split(Tail(text), sep) IN
         IF Head(text) = sep THEN << <<>> >> \o rest
         ELSE << <<Head(text)>> \o Head(rest) >> \o Tail(rest)

\* reversed(list)
RECURSIVE Reversed(_)
Reversed(list) ==
    IF list = <<>> THEN <<>> ELSE Reversed(Tail(list)) \o <<Head(list)>>

\* a command issued to a sink: Joystick.move_axis / press / release, or
\* pyautogui.keyDown / keyUp
Cmd(op, js, id, value, key) ==
    [op |-> op, js |-> js, id |-> id, value |-> value, key |-> key]

MoveAxisCmd(js, axis, value) == Cmd("move_axis", js, axis, value, <<>>)
PressCmd(js, button) == Cmd("press", js, button, Zero, <<>>)
ReleaseCmd(js, button) == Cmd("release", js, button, Zero, <<>>)
KeyDownCmd(key) == Cmd("keyDown", None, None, Zero, key)
KeyUpCmd(key) == Cmd("keyUp", None, None, Zero, key)

\* the sinks' state as a run proceeds: raised is "" or the exception's name,
\* on is run's local variable ("unset" until run assigns it)
Sinks(raised, cmds, j, padCalls, kb) ==
    [raised |-> raised, on |-> "unset", cmds |-> cmds, joy |-> j,
     padCalls |-> padCalls, keyboard |-> kb]

\* one Joystick method result folded into the sinks
WithJoystick(st, js, cmd, res) ==
    [st EXCEPT !.cmds = Append(@, cmd),
               !.joy = [@ EXCEPT ![js] = res.joy],
               !.padCalls = @ \o res.padCalls]

\* run, the axis branch
RunAxis(m, input_value, st) ==
    IF m.do_axis = None THEN st
    ELSE LET input_min == m.when_value_between[1]
             input_max == m.when_value_between[2]
         IN  IF input_max - input_min = 0
             THEN [st EXCEPT !.raised = "ZeroDivisionError"]
             ELSE LET axis_value == Frac(input_value - input_min, input_max - input_min)
                  IN  WithJoystick(st, m.with_joystick,
                                   MoveAxisCmd(m.with_joystick, m.do_axis, axis_value),
                                   MoveAxis(st.joy[m.with_joystick], m.do_axis, axis_value))

\* on, with the default threshold rounded down to an integer
OnFloorMidpoint(m, input_value) ==
    IF m.when_note # None THEN input_value = 1
    ELSE IF m.do_on_off_threshold # None THEN input_value >= m.do_on_off_threshold
    ELSE input_value >= (m.when_value_between[1] + m.when_value_between[2]) \div 2

\* run, the value of on: input_value >= sum(when_value_between) / 2 compares
\* with the exact half, so it is 2 * input_value >= low + high
On(m, input_value) ==
    IF m.when_note # None THEN input_value = 1
    ELSE IF m.do_on_off_threshold # None THEN input_value >= m.do_on_off_threshold
    ELSE 2 * input_value >= m.when_value_between[1] + m.when_value_between[2]

\* run, the button branch
RunButton(m, on, st) ==
    IF m.do_button = None THEN st
    ELSE IF on
         THEN WithJoystick(st, m.with_joystick, PressCmd(m.with_joystick, m.do_button),
                           Press(st.joy[m.with_joystick], m.do_button))
         ELSE WithJoystick(st, m.with_joystick, ReleaseCmd(m.with_joystick, m.do_button),
                           Release(st.joy[m.with_joystick], m.do_button))

\* pyautogui.keyDown / keyUp for each key of a list, in the list's order
RECURSIVE KeysDown(_, _)
KeysDown(keys, st) ==
    IF keys = <<>> THEN st
    ELSE KeysDown(Tail(keys), [st EXCEPT !.cmds = Append(@, KeyDownCmd(Head(keys))),
                                         !.keyboard = @ \cup {Head(keys)}])

RECURSIVE KeysUp(_, _)
KeysUp(keys, st) ==
    IF keys = <<>> THEN st
    ELSE KeysUp(Tail(keys), [st EXCEPT !.cmds = Append(@, KeyUpCmd(Head(keys))),
                                       !.keyboard = @ \ {Head(keys)}])

\* the key branch releasing in the order the keys were pressed
RunKeysForward(m, on, st) ==
    IF m.do_keys = <<>> THEN st
    ELSE IF on THEN KeysDown(Split(m.do_keys[1], KEY_SEP), st)
         ELSE KeysUp(Split(m.do_keys[1], KEY_SEP), st)

\* run, the key branch
RunKeys(m, on, st) ==
    IF m.do_keys = <<>> THEN st
    ELSE IF on THEN KeysDown(Split(m.do_keys[1], KEY_SEP), st)
         ELSE KeysUp(Reversed(Split(m.do_keys[1], KEY_SEP)), st)

\* Mapping.run on the sinks st (st.raised = "", st.cmds and st.padCalls empty)
Run(m, midi_message, st) ==
    LET ext == extract_midi_value(midi_message) IN
    IF ~ext.ok THEN [st EXCEPT !.raised = "ValueError"]
    ELSE LET afterAxis == RunAxis(m, ext.value, st) IN
         IF afterAxis.raised # "" THEN afterAxis
         ELSE IF m.do_button # None \/ m.do_keys # <<>>
         THEN LET on == On(m, ext.value)
                  withOn == [afterAxis EXCEPT !.on = IF on THEN "True" ELSE "False"]
              IN  RunKeys(m, on, RunButton(m, on, withOn))
         ELSE afterAxis

\* one run_if_matches call as the loop's record of it: which message (ev, an
\* index of handled) and which mapping (mi, an index of mappings) it was
\* made for, and what it did
CallRecord(ev, mi, matches, st) ==
    [ev |-> ev, mi |-> mi, matched |-> matches, raised |-> st.raised, on |-> st.on,
     cmds |-> st.cmds, padCalls |-> st.padCalls]

\* Mapping.run_if_matches: the sinks afterwards
RunIfMatches(m, midi_message, st) ==
    IF Matches(m, midi_message) THEN Run(m, midi_message, st) ELSE st

-----------------------------------------------------------------------------
(* run_midi_joysticks                                                        *)

Joysticks == {1}
NoPort == ""

\* device_names = set(m.when_device for m in mappings)
DeviceNames(ms) == {ms[i].when_device : i \in DOMAIN ms}

\* port.iter_pending(): the oldest buffered message, and what stays buffered
Poll(queue) == [entry |-> Head(queue), rest |-> Tail(queue)]

\* the mappings visited last to first
MappingOrderReversed(ms) == [i \in 1 .. Len(ms) |-> Len(ms) + 1 - i]

\* for mapping in mappings: the indexes of the list, in the order visited
MappingOrder(ms) == [i \in 1 .. Len(ms) |-> i]

\* the loop's state while one message is offered to the mappings
Offering(raised, j, p, kb, cs) ==
    [raised |-> raised, joy |-> j, pad |-> p, keyboard |-> kb, calls |-> cs]

\* the body of "for mapping in mappings" for the mappings order[k..], until
\* one run_if_matches raises
RECURSIVE OfferAll(_, _, _, _, _, _)
OfferAll(ms, order, k, midi_message, ev, acc) ==
    IF k > Len(order) \/ acc.raised # "" THEN acc
    ELSE LET m == ms[order[k]]
             st == RunIfMatches(m, midi_message,
                                Sinks("", <<>>, acc.joy, <<>>, acc.keyboard))
             p == IF m.with_joystick = None THEN acc.pad
                  ELSE [acc.pad EXCEPT ![m.with_joystick] =
                                          PadApplyAll(@, st.padCalls)]
         IN  OfferAll(ms, order, k + 1, midi_message, ev,
                      Offering(st.raised, st.joy, p, st.keyboard,
                               Append(acc.calls,
                                      CallRecord(ev, order[k],
                                                 Matches(m, midi_message), st))))

MaxEvents == 2

RECURSIVE Sum(_, _)
Sum(f, S) == IF S = {} THEN 0 ELSE LET x == CHOOSE x \in S : TRUE
                                   IN  f[x] + Sum(f, S \ {x})

\* a message arrives on an open port and is buffered
Receive(d, midi_message) ==
    /\ loop = "running"
    /\ Sum(arrived, DOMAIN arrived) < MaxEvents
    /\ arrived' = [arrived EXCEPT ![d] = @ + 1]
    /\ pending' = [pending EXCEPT ![d] = Append(@, [msg |-> midi_message,
                                                     seq |-> arrived[d] + 1])]
    /\ UNCHANGED <<kwargs, built, message, matched, mappings, loop, handled, calls,
                   joy, pad, keyboard, port, jcalls>>

\* one turn of "for port, message in multi_receive(ports)": a port is drained
\* before another one is polled, and an exception raised in the body leaves
\* the loop
Dispatch(d) ==
    /\ loop = "running"
    /\ pending[d] # <<>>
    /\ IF port = NoPort \/ port = d THEN TRUE ELSE pending[port] = <<>>
    /\ LET polled == Poll(pending[d])
           ev == Len(handled) + 1
           acc == OfferAll(mappings, MappingOrder(mappings), 1, polled.entry.msg, ev,
                           Offering("", joy, pad, keyboard, calls))
       IN  /\ pending' = [pending EXCEPT ![d] = polled.rest]
           /\ handled' = Append(handled, [port |-> d, msg |-> polled.entry.msg,
                                          seq |-> polled.entry.seq])
           /\ calls' = acc.calls
           /\ joy' = acc.joy
           /\ pad' = acc.pad
           /\ keyboard' = acc.keyboard
           /\ loop' = IF acc.raised # "" THEN acc.raised ELSE "running"
    /\ port' = d
    /\ UNCHANGED <<kwargs, built, message, matched, mappings, arrived, jcalls>>

\* except KeyboardInterrupt: the loop is left and the MIDI backend closed
Interrupt ==
    /\ loop = "running"
    /\ loop' = "quit"
    /\ UNCHANGED <<kwargs, built, message, matched, mappings, pending, arrived,
                   handled, calls, joy, pad, keyboard, port, jcalls>>

\* the state when run_midi_joysticks(ms) enters its loop
LoopInit(ms) ==
    /\ kwargs = <<>>
    /\ built = "ok"
    /\ message = <<>>
    /\ matched = "none"
    /\ mappings = ms
    /\ pending = [d \in DeviceNames(ms) |-> <<>>]
    /\ arrived = [d \in DeviceNames(ms) |-> 0]
    /\ loop = "running"
    /\ handled = <<>>
    /\ calls = <<>>
    /\ joy = [j \in Joysticks |-> JoystickInit]
    /\ pad = [j \in Joysticks |-> PadInit]
    /\ keyboard = {}
    /\ port = NoPort
    /\ jcalls = <<>>

-----------------------------------------------------------------------------
(* The inputs: messages, key texts and mapping configurations                *)

\* the messages a port delivers
Messages ==
    {ControlChange(0, 10, v) : v \in {0, 63, 64, 127}}
        \cup {ControlChange(0, 11, 64), ProgramChange(0, 64), NoteOn(0, 36),
              NoteOff(0, 36), Aftertouch(0, 64), Pitchwheel(0)}

Enter == <<"e", "n", "t", "e", "r">>
CtrlC == <<"c", "t", "r", "l", "+", "c">>
CtrlAltT == <<"c", "t", "r", "l", "+", "a", "l", "t", "+", "t">>

\* the defaults of Mapping.__init__'s keyword arguments, for device dev
Kwargs(dev) ==
    [when_device |-> dev, when_channel |-> None, when_is_program |-> FALSE,
     when_control |-> None, when_note |-> None, when_value_between |-> <<0, 127>>,
     with_joystick |-> None, do_button |-> None, do_axis |-> None,
     do_keys |-> <<>>, do_on_off_threshold |-> None]

\* the mapping lists run_midi_joysticks is started with: the knob, button and
\* key mappings of __main__; the same control mapped on two devices; a
\* wildcard mapping beside a note mapping of another device; two mappings of
\* one control writing the same button; an unusable range before a usable one
Configurations ==
    { << [Kwargs("A") EXCEPT !.when_control = 10, !.with_joystick = 1, !.do_axis = 1],
         [Kwargs("A") EXCEPT !.when_control = 11, !.with_joystick = 1, !.do_button = 0,
                             !.do_on_off_threshold = 64],
         [Kwargs("A") EXCEPT !.when_control = 11, !.do_keys = <<Enter>>] >>,
      << [Kwargs("A") EXCEPT !.when_control = 10, !.with_joystick = 1, !.do_button = 0],
         [Kwargs("B") EXCEPT !.when_control = 10, !.with_joystick = 1, !.do_button = 1] >>,
      << [Kwargs("A") EXCEPT !.do_keys = <<CtrlC>>],
         [Kwargs("B") EXCEPT !.when_note = 36, !.with_joystick = 1, !.do_button = 2] >>,
      << [Kwargs("A") EXCEPT !.when_control = 10, !.with_joystick = 1, !.do_button = 0,
                             !.do_on_off_threshold = 100],
         [Kwargs("A") EXCEPT !.when_control = 10, !.with_joystick = 1, !.do_button = 0] >>,
      << [Kwargs("B") EXCEPT !.when_control = 10, !.when_value_between = <<64, 64>>,
                             !.with_joystick = 1, !.do_axis = 2],
         [Kwargs("B") EXCEPT !.when_control = 10, !.with_joystick = 1, !.do_axis = 2] >> }

\* every Mapping of a list was constructed, so none of the constructors raised
Constructible(ms) == \A i \in DOMAIN ms : ~MappingInitRaises(ms[i])

Init == \E ms \in Configurations : Constructible(ms) /\ LoopInit(ms)

Next ==
    \/ \E d \in DOMAIN pending, midi_message \in Messages : Receive(d, midi_message)
    \/ \E d \in DOMAIN pending : Dispatch(d)
    \/ Interrupt

Spec == Init /\ [][Next]_vars

-----------------------------------------------------------------------------
(* One Mapping of any constructible shape, run by the loop on one device     *)

\* the condition fields: a control, the program, a note, a channel only, or
\* no condition at all, each with a full, a one-point and a half range
ConditionShapes ==
    { [Kwargs("A") EXCEPT !.when_channel = c[1], !.when_is_program = c[2],
                          !.when_control = c[3], !.when_note = c[4],
                          !.when_value_between = r] :
        c \in { <<None, FALSE, 10, None>>, <<None, TRUE, None, None>>,
                <<None, FALSE, None, 36>>, <<0, FALSE, None, None>>,
                <<None, FALSE, None, None>> },
        r \in { <<0, 127>>, <<64, 64>>, <<0, 64>> } }

\* the action fields: <<with_joystick, do_button, do_axis, do_keys,
\* do_on_off_threshold>>
ActionShapes ==
    { <<1, 0, None, <<>>, None>>, <<1, 14, None, <<>>, 64>>,
      <<1, None, 0, <<>>, None>>, <<1, None, 1, <<>>, None>>,
      <<1, None, 2, <<>>, None>>, <<1, 0, 1, <<>>, None>>,
      <<None, None, None, <<Enter>>, None>>, <<None, None, None, <<CtrlC>>, None>>,
      <<None, None, None, <<CtrlAltT>>, 64>>, <<1, 0, None, <<CtrlC>>, None>>,
      <<1, None, 1, <<CtrlC>>, None>> }

RunKwargs ==
    { [c EXCEPT !.with_joystick = a[1], !.do_button = a[2], !.do_axis = a[3],
                !.do_keys = a[4], !.do_on_off_threshold = a[5]] :
        c \in ConditionShapes, a \in ActionShapes }

InitRun == \E kw \in RunKwargs : Constructible(<<kw>>) /\ LoopInit(<<kw>>)

SpecRun == InitRun /\ [][Next]_vars

-----------------------------------------------------------------------------
(* Mapping(...) and Mapping.matches called on their own                      *)

\* every combination of these field values
AllKwargs ==
    { [when_device |-> "A", when_channel |-> ch, when_is_program |-> pr,
       when_control |-> co, when_note |-> no, when_value_between |-> r,
       with_joystick |-> js, do_button |-> bu, do_axis |-> ax, do_keys |-> ke,
       do_on_off_threshold |-> None] :
        ch \in {None, 0}, pr \in BOOLEAN, co \in {None, 10}, no \in {None, 36},
        r \in { <<0, 127>>, <<64, 64>>, <<10, 63>> }, js \in {None, 1},
        bu \in {None, 0}, ax \in {None, 0}, ke \in { <<>>, <<CtrlC>> } }

\* messages of every type, on and off the channel, control, note and range
MatchMessages ==
    {ControlChange(ch, c, v) : ch \in {0, 1}, c \in {10, 11}, v \in {9, 10, 63, 64, 65}}
        \cup {ProgramChange(ch, p) : ch \in {0, 1}, p \in {9, 10, 64, 127}}
        \cup {NoteOn(ch, n) : ch \in {0, 1}, n \in {36, 37}}
        \cup {NoteOff(ch, n) : ch \in {0, 1}, n \in {36, 37}}
        \cup {Aftertouch(0, 64), Aftertouch(0, 5), Pitchwheel(0), Pitchwheel(1), Clock}

\* Mapping(**kwargs): the object exists unless the checks raise
Construct ==
    /\ built = "new"
    /\ IF MappingInitRaises(kwargs)
       THEN built' = "ValueError" /\ UNCHANGED mappings
       ELSE built' = "ok" /\ mappings' = <<kwargs>>
    /\ UNCHANGED <<kwargs, message, matched, pending, arrived, loop, handled, calls,
                   joy, pad, keyboard, port, jcalls>>

\* mapping.matches(midi_message) on the constructed Mapping
CallMatches(midi_message) ==
    /\ built = "ok"
    /\ matched = "none"
    /\ message' = midi_message
    /\ matched' = IF Matches(mappings[1], midi_message) THEN "True" ELSE "False"
    /\ UNCHANGED <<kwargs, built, mappings, pending, arrived, loop, handled, calls,
                   joy, pad, keyboard, port, jcalls>>

InitMapping ==
    /\ kwargs \in AllKwargs
    /\ built = "new"
    /\ message = <<>>
    /\ matched = "none"
    /\ mappings = <<>>
    /\ pending = <<>>
    /\ arrived = <<>>
    /\ loop = "idle"
    /\ handled = <<>>
    /\ calls = <<>>
    /\ joy = [j \in Joysticks |-> JoystickInit]
    /\ pad = [j \in Joysticks |-> PadInit]
    /\ keyboard = {}
    /\ port = NoPort
    /\ jcalls = <<>>

NextMapping ==
    \/ Construct
    \/ \E midi_message \in MatchMessages : CallMatches(midi_message)

SpecMapping == InitMapping /\ [][NextMapping]_vars

-----------------------------------------------------------------------------
(* The Joystick's methods called on their own                                *)

MaxCalls == 3

\* the ratios handed to move_axis
Ratios == {Zero, Frac(1, 4), Half, Frac(3, 4), One}

\* a direct call as recorded: the method, its axis or button number, the
\* ratio (move_axis only) and the pad calls it made
JCall(method, number, value, padCalls) ==
    [method |-> method, number |-> number, value |-> value, padCalls |-> padCalls]

JoystickCall(j, method, number, value, res) ==
    /\ Len(jcalls) < MaxCalls
    /\ joy' = [joy EXCEPT ![j] = res.joy]
    /\ pad' = [pad EXCEPT ![j] = PadApplyAll(@, res.padCalls)]
    /\ jcalls' = Append(jcalls, JCall(method, number, value, res.padCalls))
    /\ UNCHANGED <<kwargs, built, message, matched, mappings, pending, arrived, loop,
                   handled, calls, keyboard, port>>

CallMoveAxis(j, axis_number, value) ==
    JoystickCall(j, "move_axis", axis_number, value, MoveAxis(joy[j], axis_number, value))

CallPress(j, button_number) ==
    JoystickCall(j, "press", button_number, Zero, Press(joy[j], button_number))

CallRelease(j, button_number) ==
    JoystickCall(j, "release", button_number, Zero, Release(joy[j], button_number))

InitJoystick ==
    /\ kwargs = <<>>
    /\ built = "new"
    /\ message = <<>>
    /\ matched = "none"
    /\ mappings = <<>>
    /\ pending = <<>>
    /\ arrived = <<>>
    /\ loop = "idle"
    /\ handled = <<>>
    /\ calls = <<>>
    /\ joy = [j \in Joysticks |-> JoystickInit]
    /\ pad = [j \in Joysticks |-> PadInit]
    /\ keyboard = {}
    /\ port = NoPort
    /\ jcalls = <<>>

NextJoystick ==
    \/ \E j \in Joysticks, a \in AxisNumbers, r \in Ratios : CallMoveAxis(j, a, r)
    \/ \E j \in Joysticks, b \in {0, 14} : CallPress(j, b)
    \/ \E j \in Joysticks, b \in {0, 14} : CallRelease(j, b)

SpecJoystick == InitJoystick /\ [][NextJoystick]_vars

-----------------------------------------------------------------------------
(* Properties                                                                *)

\* C2: Mapping(...) raises exactly when (do_axis or do_button is set and
\* with_joystick is None) or (when_note and do_axis are both set); any other
\* call yields the Mapping with the fields given, so no Mapping that exists
\* breaks either rule.
C2_ConstructionErrors ==
    built # "new" =>
        LET needsJoystick == /\ kwargs.do_axis # None \/ kwargs.do_button # None
                             /\ kwargs.with_joystick = None
            noteAsAxis == kwargs.when_note # None /\ kwargs.do_axis # None
        IN  /\ built = "ValueError" <=> (needsJoystick \/ noteAsAxis)
            /\ built = "ok" <=> mappings = <<kwargs>>
            /\ \A i \in DOMAIN mappings :
                  /\ mappings[i].do_axis # None \/ mappings[i].do_button # None
                        => mappings[i].with_joystick # None
                  /\ ~(mappings[i].when_note # None /\ mappings[i].do_axis # None)

\* a construction refused by the note rule alone, and one refused by the
\* joystick rule alone for a button
C2_Witness ==
    /\ built = "ValueError"
    /\ \/ /\ kwargs.when_note # None /\ kwargs.do_axis # None
          /\ kwargs.with_joystick # None
       \/ /\ kwargs.do_button # None /\ kwargs.do_axis = None
          /\ kwargs.with_joystick = None

\* the value C3 calls extracted: value of a control_change, program of a
\* program_change
C3_Value(e) ==
    IF e.type = "control_change" THEN e.value
    ELSE IF e.type = "program_change" THEN e.program
    ELSE None

\* C3: matches(e) is true exactly when the channel, program, control and note
\* conditions that are set all hold and, if when_is_program or when_control is
\* set, low <= value <= high (both ends included); the range is not applied
\* to a mapping with only when_note set, and a mapping with no condition
\* matches every message.
C3_MatchesExactly ==
    matched # "none" =>
        LET m == mappings[1]
            e == message
            claimed ==
                /\ m.when_channel = None
                      \/ (e.channel # None /\ e.channel = m.when_channel)
                /\ ~m.when_is_program \/ e.type = "program_change"
                /\ m.when_control = None
                      \/ (e.type = "control_change" /\ e.control = m.when_control)
                /\ m.when_note = None
                      \/ (e.type \in {"note_on", "note_off"} /\ e.note = m.when_note)
                /\ (~m.when_is_program /\ m.when_control = None)
                      \/ /\ m.when_value_between[1] <= C3_Value(e)
                         /\ C3_Value(e) <= m.when_value_between[2]
        IN  /\ matched = "True" <=> claimed
            /\ /\ m.when_channel = None /\ ~m.when_is_program
               /\ m.when_control = None /\ m.when_note = None
               => matched = "True"

\* a note-only mapping whose range excludes the gate values 0 and 1 matches
\* its note
C3_Witness ==
    /\ matched = "True"
    /\ mappings[1].when_note = 36 /\ mappings[1].when_control = None
    /\ ~mappings[1].when_is_program
    /\ mappings[1].when_value_between = <<64, 64>>
    /\ message.type = "note_on"

IsButtonCmd(c) == c.op \in {"press", "release"}
IsKeyCmd(c) == c.op \in {"keyDown", "keyUp"}
IsAxisCmd(c) == c.op = "move_axis"

\* the message and the mapping a run_if_matches call was made for
CallMsg(c) == handled[c.ev].msg
CallMapping(c) == mappings[c.mi]

\* on as C4 states it, for a message carrying value v
C4_On(m, v) ==
    IF m.when_note # None THEN v = 1
    ELSE IF m.do_on_off_threshold # None THEN v >= m.do_on_off_threshold
    ELSE 2 * v >= m.when_value_between[1] + m.when_value_between[2]

C4_Expected(m, v) ==
    IF C4_On(m, v) THEN PressCmd(m.with_joystick, m.do_button)
    ELSE ReleaseCmd(m.with_joystick, m.do_button)

\* C4 as stated: for a Mapping with do_button set, every matching message
\* issues exactly one button command, press when on is true and release
\* otherwise.
C4_EveryMatchIssuesButton ==
    \A i \in DOMAIN calls :
        LET c == calls[i]
            m == CallMapping(c)
        IN  (m.do_button # None /\ c.matched) =>
                SelectSeq(c.cmds, IsButtonCmd)
                    = <<C4_Expected(m, extract_midi_value(CallMsg(c)).value)>>

\* C4 as amended: for a Mapping with do_button set, a matching message for
\* which run gets as far as computing on issues exactly one button command,
\* press when on is true and release otherwise, decided by this message alone;
\* a matching message whose run raises before that (no value can be
\* extracted, or do_axis is also set and low = high) issues no button command.
\* With range (0, 127) and no threshold, 63 releases and 64 presses.
C4_ButtonCommand ==
    \A i \in DOMAIN calls :
        LET c == calls[i]
            m == CallMapping(c)
            ext == extract_midi_value(CallMsg(c))
            buttonCmds == SelectSeq(c.cmds, IsButtonCmd)
            raisesFirst ==
                \/ ~ext.ok
                \/ /\ m.do_axis # None
                   /\ m.when_value_between[1] = m.when_value_between[2]
        IN  (m.do_button # None /\ c.matched) =>
                /\ raisesFirst <=> c.on = "unset"
                /\ raisesFirst => buttonCmds = <<>> /\ c.raised # ""
                /\ ~raisesFirst =>
                      /\ buttonCmds = <<C4_Expected(m, ext.value)>>
                      /\ c.on = "True" <=> C4_On(m, ext.value)
                      /\ c.raised = ""
                /\ /\ ~raisesFirst /\ m.when_note = None
                   /\ m.do_on_off_threshold = None
                   /\ m.when_value_between = <<0, 127>>
                   => /\ ext.value = 63 => buttonCmds[1].op = "release"
                      /\ ext.value = 64 => buttonCmds[1].op = "press"

\* the same control value handled twice in a row presses twice
C4_Witness ==
    /\ Len(calls) = 2
    /\ mappings[1].do_button # None /\ mappings[1].do_on_off_threshold = None
    /\ mappings[1].when_value_between = <<0, 127>>
    /\ handled[1].msg = ControlChange(0, 10, 64)
    /\ handled[2].msg = handled[1].msg
    /\ \A i \in {1, 2} : calls[i].matched /\ calls[i].cmds = <<PressCmd(1, 0)>>

\* the keys of a combo, as C5 names them
C5_Keys(m) == Split(m.do_keys[1], KEY_SEP)

\* C5: for a Mapping with do_keys = k1+...+kn, a matching message with on
\* true issues exactly keyDown(k1), ..., keyDown(kn) and no keyUp, one with
\* on false exactly keyUp(kn), ..., keyUp(k1) and no keyDown; after an on
\* message followed by an off message every key of the combo is up, released
\* in the reverse of the order pressed.
C5_KeyOrder ==
    /\ \A i \in DOMAIN calls :
          LET c == calls[i]
              m == CallMapping(c)
              keyCmds == SelectSeq(c.cmds, IsKeyCmd)
          IN  (m.do_keys # <<>> /\ c.matched) =>
                  LET keys == C5_Keys(m)
                      n == Len(keys)
                  IN  /\ c.on = "True" =>
                            keyCmds = [k \in 1 .. n |-> KeyDownCmd(keys[k])]
                      /\ c.on = "False" =>
                            keyCmds = [k \in 1 .. n |-> KeyUpCmd(keys[n + 1 - k])]
    /\ \A i \in DOMAIN calls :
          /\ i > 1 /\ i = Len(calls)
          /\ calls[i].mi = calls[i - 1].mi
          /\ CallMapping(calls[i]).do_keys # <<>>
          /\ calls[i - 1].on = "True" /\ calls[i].on = "False"
          => LET downs == SelectSeq(calls[i - 1].cmds, IsKeyCmd)
                 ups == SelectSeq(calls[i].cmds, IsKeyCmd)
                 n == Len(downs)
             IN  /\ Len(ups) = n
                 /\ \A k \in 1 .. n : ups[k].key = downs[n + 1 - k].key
                 /\ \A k \in 1 .. n : downs[k].key \notin keyboard

\* a three-key combo pressed by one message and released by the next
C5_Witness ==
    /\ Len(calls) = 2
    /\ mappings[1].do_keys = <<CtrlAltT>>
    /\ calls[1].on = "True" /\ calls[2].on = "False"
    /\ Len(calls[1].cmds) = 3 /\ Len(calls[2].cmds) = 3
    /\ calls[2].cmds[1].key = <<"t">>
    /\ keyboard = {}

\* C9: every axis command carries a ratio within [0, 1]: for a Mapping with
\* do_axis set and a message it matches, low <= value <= high and high > low
\* hold when the ratio is computed, so the division never fails and the ratio
\* never leaves [0, 1].
C9_RatioInUnitInterval ==
    \A i \in DOMAIN calls :
        LET c == calls[i]
            m == CallMapping(c)
            ext == extract_midi_value(CallMsg(c))
        IN  (m.do_axis # None /\ c.matched /\ ext.ok) =>
                /\ m.when_value_between[1] <= ext.value
                /\ ext.value <= m.when_value_between[2]
                /\ m.when_value_between[2] > m.when_value_between[1]
                /\ c.raised # "ZeroDivisionError"
                /\ \A k \in DOMAIN c.cmds :
                      IsAxisCmd(c.cmds[k]) =>
                          FracLe(Zero, c.cmds[k].value) /\ FracLe(c.cmds[k].value, One)

\* C1: a Mapping never matches, and issues no command for, a message
\* received from a device other than its when_device.
C1_DeviceScoping ==
    \A i \in DOMAIN calls :
        handled[calls[i].ev].port # CallMapping(calls[i]).when_device =>
            ~calls[i].matched /\ calls[i].cmds = <<>>

\* every command issued so far, in the order issued
RECURSIVE AllCmds(_)
AllCmds(cs) == IF cs = <<>> THEN <<>> ELSE Head(cs).cmds \o AllCmds(Tail(cs))

C8_LoopSurvivesExtractionFailure ==
    \A i \in DOMAIN calls :
        calls[i].raised = "ValueError" => loop \in {"running", "quit"}

\* the trigger values a move_axis call set: <<left, right>>
C6_Triggers(c) ==
    <<SelectSeq(c.padCalls, LAMBDA x : x.fn = "left_trigger_float")[1].x,
      SelectSeq(c.padCalls, LAMBDA x : x.fn = "right_trigger_float")[1].x>>

\* C6: on the triggers axis ratio 0 sets left 0 and right full, ratio 1 sets
\* left full and right 0, ratio 1/2 sets both to 0, and for every ratio in
\* [0, 1] one trigger is 0 while the other is within [0, full].
C6_TriggerPair ==
    \A i \in DOMAIN jcalls :
        LET c == jcalls[i] IN
        (c.method = "move_axis" /\ c.number = 0) =>
            LET t == C6_Triggers(c) IN
            /\ c.value = Zero => t = <<Zero, One>>
            /\ c.value = One => t = <<One, Zero>>
            /\ c.value = Half => t = <<Zero, Zero>>
            /\ t[1] = Zero \/ t[2] = Zero
            /\ FracLe(Zero, t[1]) /\ FracLe(t[1], One)
            /\ FracLe(Zero, t[2]) /\ FracLe(t[2], One)

\* the component value C10 expects of the call c for the component it names
C10_NewValue(c) ==
    LET v == Frac(2 * c.value[1] - c.value[2], c.value[2])
    IN  IF AXES[c.number + 1].param = "y_value_float" THEN Frac(-v[1], v[2]) ELSE v

\* the value of stick's component param after the first n direct calls: that
\* of the most recent move_axis call naming it, else the initial value
RECURSIVE C10_Retained(_, _, _)
C10_Retained(n, stick, param) ==
    IF n = 0 THEN (IF param = "x_value_float" THEN Frac(-1, 1) ELSE One)
    ELSE LET c == jcalls[n] IN
         IF /\ c.method = "move_axis"
            /\ AXES[c.number + 1].name = stick /\ AXES[c.number + 1].param = param
         THEN C10_NewValue(c)
         ELSE C10_Retained(n - 1, stick, param)

\* C10: every move_axis call on a stick axis submits one report for that
\* stick carrying both components, the named one new (ratio * 2 - 1, negated
\* for y) and the other as the most recent earlier call for it left it, or
\* the initial x = -1, y = 1; no call changes what the other stick retains;
\* every call ends with exactly one update.
C10_StickRetention ==
    /\ \A i \in DOMAIN jcalls :
          LET c == jcalls[i]
              n == Len(c.padCalls)
          IN  /\ c.padCalls[n] = Update
              /\ \A k \in 1 .. n - 1 : c.padCalls[k] # Update
              /\ (c.method = "move_axis" /\ c.number # 0) =>
                    LET axis == AXES[c.number + 1]
                        x == IF axis.param = "x_value_float" THEN C10_NewValue(c)
                             ELSE C10_Retained(i - 1, axis.name, "x_value_float")
                        y == IF axis.param = "y_value_float" THEN C10_NewValue(c)
                             ELSE C10_Retained(i - 1, axis.name, "y_value_float")
                    IN  c.padCalls = <<PadCall(axis.name, x, y, ""), Update>>
    /\ \A stick \in {"left_joystick_float", "right_joystick_float"} :
          \A param \in {"x_value_float", "y_value_float"} :
              joy[1][stick][param] = C10_Retained(Len(jcalls), stick, param)

\* left x set twice, then left y: the report carries the second x, not the
\* first nor the initial one
C10_Witness ==
    /\ Len(jcalls) = 3
    /\ jcalls[1] = JCall("move_axis", 1, Zero, jcalls[1].padCalls)
    /\ jcalls[2] = JCall("move_axis", 1, Frac(3, 4), jcalls[2].padCalls)
    /\ jcalls[3].method = "move_axis" /\ jcalls[3].number = 2
    /\ jcalls[3].value = Frac(1, 4)
    /\ jcalls[3].padCalls[1] = PadCall("left_joystick_float", Half, Half, "")

=============================================================================
